---- MODULE Spec2Model ----
(***************************************************************************)
(* A model of the alignment runner of ZetaStitcher (src/stitcher/runner.py):*)
(* the producer/consumer pipeline of Runner.run and the aggregation of the *)
(* measurements in Runner.aggregate_results.                               *)
(*                                                                         *)
(* Threads are modelled at the granularity of their operations on the      *)
(* shared queues (queue.Queue operations are atomic under the queue's      *)
(* mutex); thread-local computation is merged with the next queue          *)
(* operation of the same thread.                                           *)
(***************************************************************************)
EXTENDS Integers, Sequences, FiniteSets, TLC

VARIABLES
    n,                     \* arg.n, the number of worker threads
    initial_queue_length,  \* self.q.qsize() as passed to every worker
    q,                     \* self.q: the alignment jobs (unbounded FIFO)
    q_unfinished,          \* self.q.unfinished_tasks
    data_queue,            \* self.data_queue: window pairs and sentinels
    dq_unfinished,         \* self.data_queue.unfinished_tasks
    output_q,              \* self.output_q: the measurements
    main,                  \* the thread executing Runner.run
    workers,               \* the threads executing Runner.worker
    cfg,                   \* the Runner attributes set from the command line
    argmax_by_label,       \* the installed pandas: does np.argmax of a Series
                           \* give the row label (pandas < 1.0) or the position
    view,                  \* what aggregate_results returned
    hist,                  \* history of the run (read by the properties only)
    squircle,              \* a call of squircle_alpha: its arguments and result
    fuse,                  \* a call of fuse_queue: its queue, locals and result
    lru,                   \* the lru_cache of squircle_alpha and its arrays
    blayer                 \* the B window cut by keep_filling_data_queue

runnerVars ==
    <<n, initial_queue_length, q, q_unfinished, data_queue, dq_unfinished,
      output_q, main, workers, cfg, argmax_by_label, view, hist>>

\* The state of the functions of fuse.py and of the window slicing, which
\* Runner.run does not touch.
pureVars == <<squircle, fuse, lru, blayer>>

vars == <<runnerVars, pureVars>>

----------------------------------------------------------------------------
(* Bounds of the model *)

MaxWorkers == 2     \* arg.n ranges over 0..MaxWorkers
MaxGrid == 2        \* the tile grid has 1..MaxGrid columns and rows
MaxZSamples == 3    \* z_samples ranges over 1..MaxZSamples
MaxJobs == 3        \* only grids producing at most MaxJobs jobs are run
MaxScore == 2       \* correlation scores range over 1..MaxScore
MaxShift == 1       \* a correlation peak has dz + dy + dx <= MaxShift
MaxMeas == 2        \* aggregate_results is applied to at most MaxMeas rows
NFrames == 1000        \* nfrms of every tile

(* Program constants *)
ZStride == 200      \* default of --z-stride

----------------------------------------------------------------------------
(* Runner.initialize_queue *)

\* fm.tiles_along_X: one group per row, tiles in ascending X.
TilesAlongX(cols, rows) ==
    [r \in 1..rows |-> [c \in 1..cols |-> <<c - 1, r - 1>>]]

\* fm.tiles_along_Y: one group per column, tiles in descending Y
\* (ascending_tiles_Y = False).
TilesAlongY(cols, rows) ==
    [c \in 1..cols |-> [r \in 1..rows |-> <<c - 1, rows - r>>]]

\* start_frame of the Z samples of a tile with nfrms frames.
StartFrame(nfrms, z_samples, z_stride) ==
    (nfrms \div 2) - ((z_samples \div 2) * z_stride)
        + (IF z_samples % 2 # 0 THEN 0 ELSE z_stride \div 2)

\* The params_dict queued for the pair (group[p], group[p+1]) and sample i.
ParamsDict(group, p, i, axis, z_samples) ==
    [aname |-> group[p], bname |-> group[p + 1],
     z_frame |-> StartFrame(NFrames, z_samples, ZStride) + i * ZStride,
     axis |-> axis]

\* The jobs of one group: consecutive tiles, z_samples jobs per pair.
GroupJobs(group, axis, z_samples) ==
    [k \in 1..((Len(group) - 1) * z_samples) |->
        ParamsDict(group, ((k - 1) \div z_samples) + 1, (k - 1) % z_samples,
                   axis, z_samples)]

RECURSIVE GeneratorJobs(_, _, _)
GeneratorJobs(groups, axis, z_samples) ==
    IF groups = <<>> THEN <<>>
    ELSE GroupJobs(Head(groups), axis, z_samples)
            \o GeneratorJobs(Tail(groups), axis, z_samples)

\* self.q after initialize_queue: first the X groups (axis 2), then the Y
\* groups (axis 1).
InitializeQueue(cols, rows, z_samples) ==
    GeneratorJobs(TilesAlongX(cols, rows), 2, z_samples)
        \o GeneratorJobs(TilesAlongY(cols, rows), 1, z_samples)

----------------------------------------------------------------------------
(* The queues *)

None == [kind |-> "None"]

\* Both windows read at the central frame, whatever the Z sample.
DataItem_CentralFrame(job) ==
    [kind |-> "item", aname |-> job.aname, bname |-> job.bname,
     axis |-> job.axis, z_frame |-> NFrames \div 2]

\* The entry put on data_queue for a job whose windows were read.
DataItem(job) ==
    [kind |-> "item", aname |-> job.aname, bname |-> job.bname,
     axis |-> job.axis, z_frame |-> job.z_frame]

DataQueueMaxsize_Larger == 2 * n + 1

\* queue.Queue(maxsize=int(arg.n * 2))
DataQueueMaxsize == 2 * n

\* queue.Queue._qsize() >= maxsize, checked by put only when maxsize > 0.
DataQueueFull == DataQueueMaxsize > 0 /\ Len(data_queue) >= DataQueueMaxsize

DataQueueJoined_NoWait == TRUE

\* data_queue.join() returns when no put entry is left unacknowledged.
DataQueueJoined == dq_unfinished = 0

ThreadEnded_NoWait(w) == TRUE

\* t.join() returns when the thread has ended, by return or by exception.
ThreadEnded(w) == workers[w].pc \in {"exit", "dead"}

----------------------------------------------------------------------------
(* Inputs *)

\* Peak positions of a correlation surface, the shift [dz, dy, dx]: the
\* peaks displaced along at most one axis.
Peaks ==
    {p \in [dz : 0..MaxShift, dy : 0..MaxShift, dx : 0..MaxShift] :
        Cardinality({c \in {"dz", "dy", "dx"} : p[c] # 0}) <= 1}

\* Peak values of a correlation surface.
Scores == 1..MaxScore

\* The maximum shifts and overlaps given on the command line (four distinct
\* values), with either aggregation policy.
Configs ==
    {[max_dz |-> MaxShift, max_dx |-> MaxShift + 1,
      overlap_v |-> MaxShift + 2, overlap_h |-> MaxShift + 3,
      compute_average |-> avg] : avg \in BOOLEAN}

\* normxcorr2_fftw and the peak search of Runner.worker: a function of the
\* two windows, that is of the job.  In a whole run the surface peaks at its
\* origin, with a score that differs between the Z samples of a pair;
\* SpecAgg ranges over all peaks and scores.
XcorrPeak(item) ==
    [dz |-> 0, dy |-> 0, dx |-> 0,
     score |-> 1 + ((item.z_frame \div ZStride) % MaxScore)]

NoView == [raised |-> FALSE, agg |-> {}, rows |-> {}]

Job2Count(jobs) == [j \in jobs |-> 0]

\* No call of squircle_alpha, of fuse_queue or of the window slicing is in
\* progress.
NoCall == [pc |-> "idle"]

PureIdle ==
    /\ squircle = NoCall
    /\ fuse = NoCall
    /\ lru = NoCall
    /\ blayer = NoCall

\* The history of a run without jobs and without workers.
NoHist ==
    [jobs |-> {}, read_failed |-> {}, corr_failed |-> {},
     measured |-> <<>>, dq_done |-> <<>>, q_done |-> <<>>,
     sentinels_put |-> 0, sentinels_got |-> <<>>, printed |-> {}]

\* Runner.run is not running.
RunnerIdle ==
    /\ cfg = CHOOSE c \in Configs : ~c.compute_average
    /\ argmax_by_label = FALSE
    /\ n = 0
    /\ q = <<>>
    /\ q_unfinished = 0
    /\ initial_queue_length = 0
    /\ data_queue = <<>>
    /\ dq_unfinished = 0
    /\ output_q = <<>>
    /\ main = [pc |-> "done", item |-> None, i |-> 0, joined |-> 0]
    /\ workers = <<>>
    /\ view = NoView
    /\ hist = NoHist

Range(f) == {f[x] : x \in DOMAIN f}

----------------------------------------------------------------------------
(* Runner.run: the state when keep_filling_data_queue is entered, the      *)
(* workers started and blocked in data_queue.get().                        *)

RunInit(nworkers, jobs) ==
    /\ n = nworkers
    /\ q = jobs
    /\ q_unfinished = Len(jobs)
    /\ initial_queue_length = Len(jobs)
    /\ data_queue = <<>>
    /\ dq_unfinished = 0
    /\ output_q = <<>>
    /\ main = [pc |-> "fill", item |-> None, i |-> 0, joined |-> 0]
    /\ workers = [w \in 1..nworkers |-> [pc |-> "get", item |-> None, exc |-> FALSE]]
    /\ view = NoView
    /\ hist = [jobs |-> Range(jobs),
               read_failed |-> {}, corr_failed |-> {},
               measured |-> Job2Count(Range(jobs)),
               dq_done |-> Job2Count(Range(jobs)),
               q_done |-> Job2Count(Range(jobs)),
               sentinels_put |-> 0,
               sentinels_got |-> [w \in 1..nworkers |-> 0],
               printed |-> {}]
    /\ PureIdle

Init ==
    /\ cfg \in {c \in Configs : ~c.compute_average}
    /\ argmax_by_label \in BOOLEAN
    /\ \E nworkers \in 0..MaxWorkers, cols \in 1..MaxGrid, rows \in 1..MaxGrid,
          z_samples \in 1..MaxZSamples :
            /\ Len(InitializeQueue(cols, rows, z_samples)) <= MaxJobs
            /\ RunInit(nworkers, InitializeQueue(cols, rows, z_samples))

JobOf(item) ==
    [aname |-> item.aname, bname |-> item.bname,
     z_frame |-> item.z_frame, axis |-> item.axis]

Bump(f, x) == [f EXCEPT ![x] = @ + 1]

----------------------------------------------------------------------------
(* Runner.keep_filling_data_queue, run by the main thread *)

\* q.get_nowait() returns a job and both windows are read.
FillRead ==
    /\ main.pc = "fill"
    /\ q # <<>>
    /\ q' = Tail(q)
    /\ main' = [main EXCEPT !.pc = "put", !.item = DataItem(Head(q))]
    /\ UNCHANGED pureVars
    /\ UNCHANGED <<n, initial_queue_length, q_unfinished, data_queue,
                   dq_unfinished, output_q, workers, cfg, argmax_by_label,
                   view, hist>>

\* q.get_nowait() returns a job and reading a window raises: the exception
\* leaves keep_filling_data_queue and Runner.run.
FillReadFail ==
    /\ main.pc = "fill"
    /\ q # <<>>
    /\ q' = Tail(q)
    /\ main' = [main EXCEPT !.pc = "crashed"]
    /\ hist' = [hist EXCEPT !.read_failed = @ \cup {Head(q)}]
    /\ UNCHANGED pureVars
    /\ UNCHANGED <<n, initial_queue_length, q_unfinished, data_queue,
                   dq_unfinished, output_q, workers, cfg, argmax_by_label,
                   view>>

\* q.get_nowait() raises queue.Empty: break.
FillEmpty ==
    /\ main.pc = "fill"
    /\ q = <<>>
    /\ main' = [main EXCEPT !.pc = "join"]
    /\ UNCHANGED pureVars
    /\ UNCHANGED <<n, initial_queue_length, q, q_unfinished, data_queue,
                   dq_unfinished, output_q, workers, cfg, argmax_by_label,
                   view, hist>>

\* self.data_queue.put([...]) blocks while the queue is full.
DataQueuePut ==
    /\ main.pc = "put"
    /\ ~DataQueueFull
    /\ data_queue' = Append(data_queue, main.item)
    /\ dq_unfinished' = dq_unfinished + 1
    /\ main' = [main EXCEPT !.pc = "fill", !.item = None]
    /\ UNCHANGED pureVars
    /\ UNCHANGED <<n, initial_queue_length, q, q_unfinished, output_q,
                   workers, cfg, argmax_by_label, view, hist>>

----------------------------------------------------------------------------
(* Runner.aggregate_results.  df is output_q as a table: row i of the      *)
(* sequence carries the index label i - 1.  Aggregated values are          *)
(* rationals <<numerator, denominator>> with a positive denominator.       *)

Rat(v) == <<v, 1>>
RatEq(a, b) == a[1] * b[2] = b[1] * a[2]
RatSubInt(a, c) == <<a[1] - c * a[2], a[2]>>
IntSubRat(c, a) == <<c * a[2] - a[1], a[2]>>

RECURSIVE Sum(_)
Sum(s) == IF s = <<>> THEN 0 ELSE Head(s) + Sum(Tail(s))

RECURSIVE Dot(_, _)
Dot(s, t) == IF s = <<>> THEN 0 ELSE Head(s) * Head(t) + Dot(Tail(s), Tail(t))

\* The groupby key of a row.
Key(m) == [aname |-> m.aname, bname |-> m.bname, axis |-> m.axis]

\* df.loc[label]
Loc(df, label) == df[label + 1]

\* df.groupby(['aname', 'bname', 'axis']): the keys that have rows.
GroupBy(df) == {Key(df[i]) : i \in 1..Len(df)}

\* x.index: the labels of the rows of group k, in table order.
Index(df, k) ==
    SelectSeq([i \in 1..Len(df) |-> i - 1], LAMBDA l : Key(Loc(df, l)) = k)

\* df.loc[x.index, col]
Column(df, idx, col) == [j \in 1..Len(idx) |-> Loc(df, idx[j])[col]]

\* numpy.argmax of an array: the position of the first maximum.
ArgMax(s) ==
    CHOOSE p \in 0..(Len(s) - 1) :
        /\ \A j \in 1..Len(s) : s[j] <= s[p + 1]
        /\ \A j \in 1..p : s[j] < s[p + 1]

\* np.argmax(df.loc[x.index, 'score']) dispatches to Series.argmax: the
\* label of the first maximum before pandas 1.0, its position since.
SeriesArgmax(idx, s) ==
    IF argmax_by_label THEN idx[ArgMax(s) + 1] ELSE ArgMax(s)

\* lambda x: df.loc[np.argmax(df.loc[x.index, 'score']), x.name]
BestOf(df, idx, col) ==
    Rat(Loc(df, SeriesArgmax(idx, Column(df, idx, "score")))[col])

Average_Unweighted(df, idx, col) ==
    <<Sum(Column(df, idx, col)), Len(idx)>>

\* lambda x: np.average(x, weights=df.loc[x.index, 'score'])
Average(df, idx, col) ==
    <<Dot(Column(df, idx, col), Column(df, idx, "score")),
      Sum(Column(df, idx, "score"))>>

\* The aggregation applied to column col of the group with labels idx.
Agg(df, idx, col) ==
    IF cfg.compute_average THEN Average(df, idx, col) ELSE BestOf(df, idx, col)

\* The row of view for group k, after reset_index.
AggRecord(df, k) ==
    [aname |-> k.aname, bname |-> k.bname, axis |-> k.axis,
     dz |-> Agg(df, Index(df, k), "dz"),
     dy |-> Agg(df, Index(df, k), "dy"),
     dx |-> Agg(df, Index(df, k), "dx"),
     score |-> Agg(df, Index(df, k), "score")]

OverlapDict_OnlyV(a) == cfg.overlap_v

\* self.overlap_dict[a]
OverlapDict(a) == IF a = 1 THEN cfg.overlap_v ELSE cfg.overlap_h

\* The conversion of one row at the end of aggregate_results.
Convert(r) ==
    [r EXCEPT !.dz = RatSubInt(@, cfg.max_dz),
              !.dy = IntSubRat(OverlapDict(r.axis), @),
              !.dx = RatSubInt(@, cfg.max_dx)]

\* df.columns = [...] raises ValueError on the column-less table of an empty
\* output_q; np.average raises ZeroDivisionError when the weights sum to 0.
AggregateRaises(df) ==
    \/ Len(df) = 0
    \/ /\ cfg.compute_average
       /\ \E k \in GroupBy(df) : Sum(Column(df, Index(df, k), "score")) = 0

AggregateResults(df) ==
    IF AggregateRaises(df)
    THEN [raised |-> TRUE, agg |-> {}, rows |-> {}]
    ELSE [raised |-> FALSE,
          agg |-> {AggRecord(df, k) : k \in GroupBy(df)},
          rows |-> {Convert(AggRecord(df, k)) : k \in GroupBy(df)}]

----------------------------------------------------------------------------
(* Runner.run after keep_filling_data_queue, run by the main thread *)

\* self.data_queue.join()
DataQueueJoin ==
    /\ main.pc = "join"
    /\ DataQueueJoined
    /\ main' = [main EXCEPT !.pc = "stop", !.i = 0]
    /\ UNCHANGED pureVars
    /\ UNCHANGED <<n, initial_queue_length, q, q_unfinished, data_queue,
                   dq_unfinished, output_q, workers, cfg, argmax_by_label,
                   view, hist>>

\* for i in range(arg.n): self.data_queue.put(None)
PutSentinel ==
    /\ main.pc = "stop"
    /\ main.i < n
    /\ ~DataQueueFull
    /\ data_queue' = Append(data_queue, None)
    /\ dq_unfinished' = dq_unfinished + 1
    /\ main' = [main EXCEPT !.i = @ + 1]
    /\ hist' = [hist EXCEPT !.sentinels_put = @ + 1]
    /\ UNCHANGED pureVars
    /\ UNCHANGED <<n, initial_queue_length, q, q_unfinished, output_q,
                   workers, cfg, argmax_by_label, view>>

\* The sentinel loop is exhausted.
StopDone ==
    /\ main.pc = "stop"
    /\ main.i >= n
    /\ main' = [main EXCEPT !.pc = "joinThreads", !.joined = 0]
    /\ UNCHANGED pureVars
    /\ UNCHANGED <<n, initial_queue_length, q, q_unfinished, data_queue,
                   dq_unfinished, output_q, workers, cfg, argmax_by_label,
                   view, hist>>

\* for t in threads: t.join()
ThreadJoin ==
    /\ main.pc = "joinThreads"
    /\ main.joined < n
    /\ ThreadEnded(main.joined + 1)
    /\ main' = [main EXCEPT !.joined = @ + 1]
    /\ UNCHANGED pureVars
    /\ UNCHANGED <<n, initial_queue_length, q, q_unfinished, data_queue,
                   dq_unfinished, output_q, workers, cfg, argmax_by_label,
                   view, hist>>

\* The join loop is exhausted.
JoinDone ==
    /\ main.pc = "joinThreads"
    /\ main.joined >= n
    /\ main' = [main EXCEPT !.pc = "aggregate"]
    /\ UNCHANGED pureVars
    /\ UNCHANGED <<n, initial_queue_length, q, q_unfinished, data_queue,
                   dq_unfinished, output_q, workers, cfg, argmax_by_label,
                   view, hist>>

\* view = self.aggregate_results(); an exception of it leaves Runner.run.
Aggregate ==
    /\ main.pc = "aggregate"
    /\ view' = AggregateResults(output_q)
    /\ main' = [main EXCEPT !.pc = IF view'.raised THEN "crashed" ELSE "done"]
    /\ UNCHANGED pureVars
    /\ UNCHANGED <<n, initial_queue_length, q, q_unfinished, data_queue,
                   dq_unfinished, output_q, workers, cfg, argmax_by_label,
                   hist>>

----------------------------------------------------------------------------
(* Runner.worker, run by thread w *)

\* item = self.data_queue.get(); if item is None: break
WorkerGet(w) ==
    /\ workers[w].pc = "get"
    /\ data_queue # <<>>
    /\ data_queue' = Tail(data_queue)
    /\ workers' = [workers EXCEPT
           ![w].pc = IF Head(data_queue) = None THEN "exit" ELSE "work",
           ![w].item = Head(data_queue)]
    /\ hist' = IF Head(data_queue) = None
               THEN [hist EXCEPT !.sentinels_got = Bump(@, w)]
               ELSE hist
    /\ UNCHANGED pureVars
    /\ UNCHANGED <<n, initial_queue_length, q, q_unfinished, dq_unfinished,
                   output_q, main, cfg, argmax_by_label, view>>

\* progress=(100 * (1 - self.q.qsize() / initial_queue_length)), as the
\* rational <<numerator, denominator>>.
Progress(qsize, length) == <<100 * (length - qsize), length>>

\* The body of the try block: the correlation, its peak, the progress line
\* and self.output_q.put([aname, bname, axis] + shift + [score]).
WorkerCorrelate(w) ==
    /\ workers[w].pc = "work"
    /\ output_q' = Append(output_q,
           [aname |-> workers[w].item.aname, bname |-> workers[w].item.bname,
            axis |-> workers[w].item.axis,
            dz |-> XcorrPeak(workers[w].item).dz,
            dy |-> XcorrPeak(workers[w].item).dy,
            dx |-> XcorrPeak(workers[w].item).dx,
            score |-> XcorrPeak(workers[w].item).score])
    /\ workers' = [workers EXCEPT ![w].pc = "task_done_dq", ![w].exc = FALSE]
    /\ hist' = [hist EXCEPT
                  !.measured = Bump(@, JobOf(workers[w].item)),
                  !.printed = @ \cup
                      {[progress |-> Progress(Len(q), initial_queue_length),
                        completed |-> Len(output_q) + 1]}]
    /\ UNCHANGED pureVars
    /\ UNCHANGED <<n, initial_queue_length, q, q_unfinished, data_queue,
                   dq_unfinished, main, cfg, argmax_by_label, view>>

\* The try block raises before output_q.put: the finally clause runs with
\* the exception pending.
WorkerCorrelateFail(w) ==
    /\ workers[w].pc = "work"
    /\ workers' = [workers EXCEPT ![w].pc = "task_done_dq", ![w].exc = TRUE]
    /\ hist' = [hist EXCEPT !.corr_failed = @ \cup {JobOf(workers[w].item)}]
    /\ UNCHANGED pureVars
    /\ UNCHANGED <<n, initial_queue_length, q, q_unfinished, data_queue,
                   dq_unfinished, output_q, main, cfg, argmax_by_label, view>>

\* finally: self.data_queue.task_done()  (ValueError when called too often)
WorkerTaskDoneDq(w) ==
    /\ workers[w].pc = "task_done_dq"
    /\ IF dq_unfinished <= 0
       THEN /\ workers' = [workers EXCEPT ![w].pc = "dead", ![w].exc = TRUE]
            /\ UNCHANGED <<dq_unfinished, hist>>
       ELSE /\ dq_unfinished' = dq_unfinished - 1
            /\ workers' = [workers EXCEPT ![w].pc = "task_done_q"]
            /\ hist' = [hist EXCEPT !.dq_done = Bump(@, JobOf(workers[w].item))]
    /\ UNCHANGED pureVars
    /\ UNCHANGED <<n, initial_queue_length, q, q_unfinished, data_queue,
                   output_q, main, cfg, argmax_by_label, view>>

\* finally: self.q.task_done(); then the pending exception ends the thread,
\* or the loop goes on.
WorkerTaskDoneQ(w) ==
    /\ workers[w].pc = "task_done_q"
    /\ IF q_unfinished <= 0
       THEN /\ workers' = [workers EXCEPT ![w].pc = "dead", ![w].exc = TRUE]
            /\ UNCHANGED <<q_unfinished, hist>>
       ELSE /\ q_unfinished' = q_unfinished - 1
            /\ workers' = [workers EXCEPT
                   ![w].pc = IF workers[w].exc THEN "dead" ELSE "get",
                   ![w].item = None]
            /\ hist' = [hist EXCEPT !.q_done = Bump(@, JobOf(workers[w].item))]
    /\ UNCHANGED pureVars
    /\ UNCHANGED <<n, initial_queue_length, q, data_queue, dq_unfinished,
                   output_q, main, cfg, argmax_by_label, view>>

----------------------------------------------------------------------------
(* The run *)

Next ==
    \/ FillRead
    \/ FillReadFail
    \/ FillEmpty
    \/ DataQueuePut
    \/ DataQueueJoin
    \/ PutSentinel
    \/ StopDone
    \/ ThreadJoin
    \/ JoinDone
    \/ Aggregate
    \/ \E w \in 1..n : WorkerGet(w)
    \/ \E w \in 1..n : WorkerCorrelate(w)
    \/ \E w \in 1..n : WorkerCorrelateFail(w)
    \/ \E w \in 1..n : WorkerTaskDoneDq(w)
    \/ \E w \in 1..n : WorkerTaskDoneQ(w)

Spec == Init /\ [][Next]_vars

----------------------------------------------------------------------------
(* aggregate_results on its own: Runner.run has reached line 252 with any  *)
(* measurements in output_q.                                               *)

AggKeys ==
    {[aname |-> <<0, 0>>, bname |-> <<1, 0>>, axis |-> 2],
     [aname |-> <<0, 1>>, bname |-> <<0, 0>>, axis |-> 1]}

Measurements ==
    {[aname |-> k.aname, bname |-> k.bname, axis |-> k.axis,
      dz |-> p.dz, dy |-> p.dy, dx |-> p.dx, score |-> s] :
        k \in AggKeys, p \in Peaks, s \in Scores}

InitAgg ==
    /\ cfg \in Configs
    /\ argmax_by_label \in BOOLEAN
    /\ n = 0
    /\ q = <<>>
    /\ q_unfinished = 0
    /\ initial_queue_length = 0
    /\ data_queue = <<>>
    /\ dq_unfinished = 0
    /\ output_q \in UNION {[1..k -> Measurements] : k \in 0..MaxMeas}
    /\ main = [pc |-> "aggregate", item |-> None, i |-> 0, joined |-> 0]
    /\ workers = <<>>
    /\ view = NoView
    /\ hist = NoHist
    /\ PureIdle

NextAgg == Aggregate

SpecAgg == InitAgg /\ [][NextAgg]_vars

\* The run in which no tile read and no correlation raises.
NextNoFail ==
    \/ FillRead
    \/ FillEmpty
    \/ DataQueuePut
    \/ DataQueueJoin
    \/ PutSentinel
    \/ StopDone
    \/ ThreadJoin
    \/ JoinDone
    \/ Aggregate
    \/ \E w \in 1..n : WorkerGet(w)
    \/ \E w \in 1..n : WorkerCorrelate(w)
    \/ \E w \in 1..n : WorkerTaskDoneDq(w)
    \/ \E w \in 1..n : WorkerTaskDoneQ(w)

SpecNoFail == Init /\ [][NextNoFail]_vars

----------------------------------------------------------------------------
(* fuse.py works on float arrays.  A float is modelled as the rational      *)
(* <<numerator, denominator>> in lowest terms, and <<0, 0>> is NaN (the     *)
(* value numpy gives 0/0).  A divisor is zero only where the dividend is    *)
(* zero too (a weight never exceeds the weight sum it is part of), so no    *)
(* infinity arises.                                                        *)

NaN == <<0, 0>>

IsNaN(v) == v[2] = 0

RECURSIVE GCD(_, _)
GCD(c, d) == IF d = 0 THEN c ELSE GCD(d, c % d)

Abs(c) == IF c < 0 THEN -c ELSE c

RatNorm(v) ==
    IF v[2] = 0 THEN NaN
    ELSE LET g == GCD(Abs(v[1]), Abs(v[2]))
             sgn == IF v[2] < 0 THEN -1 ELSE 1
         IN  <<sgn * (v[1] \div g), sgn * (v[2] \div g)>>

RatAdd(v, u) ==
    IF IsNaN(v) \/ IsNaN(u) THEN NaN
    ELSE RatNorm(<<v[1] * u[2] + u[1] * v[2], v[2] * u[2]>>)

RatSub(v, u) ==
    IF IsNaN(v) \/ IsNaN(u) THEN NaN
    ELSE RatNorm(<<v[1] * u[2] - u[1] * v[2], v[2] * u[2]>>)

RatMul(v, u) ==
    IF IsNaN(v) \/ IsNaN(u) THEN NaN
    ELSE RatNorm(<<v[1] * u[1], v[2] * u[2]>>)

RatDiv(v, u) ==
    IF IsNaN(v) \/ IsNaN(u) \/ u[1] = 0 THEN NaN
    ELSE RatNorm(<<v[1] * u[2], v[2] * u[1]>>)

\* v < u; every comparison with NaN is false.
RatLess(v, u) == ~IsNaN(v) /\ ~IsNaN(u) /\ v[1] * u[2] < u[1] * v[2]

\* int(v) of a non-negative float
RatFloor(v) == v[1] \div v[2]

Max(c, d) == IF c >= d THEN c ELSE d

Min(c, d) == IF c <= d THEN c ELSE d

RatMax(v, u) == IF RatLess(v, u) THEN u ELSE v

----------------------------------------------------------------------------
(* squircle_alpha (fuse.py).  np.int is taken to exist (numpy < 1.24).      *)

MaxSide == 8     \* height and width of a mask range over 1..MaxSide

RECURSIVE IntPow(_, _)
IntPow(c, e) == IF e = 0 THEN 1 ELSE c * IntPow(c, e - 1)

\* np.logspace(np.log10(2), np.log10(50), N)[ii] is 2 * 25^(ii / (N - 1));
\* PsFloor is its integer part (the exponent itself for ii = 0 and N - 1).
PsFloor(N, ii) ==
    IF N = 1 \/ ii = 0 THEN 2
    ELSE CHOOSE k \in 2..50 :
            /\ IntPow(k, N - 1) <= IntPow(2, N - 1) * IntPow(25, ii)
            /\ (k = 50 \/ IntPow(k + 1, N - 1) > IntPow(2, N - 1) * IntPow(25, ii))

\* alpha = np.linspace(0, 1, N); alpha[ii] ** 2
AlphaSquared(N, ii) ==
    IF N = 1 THEN Rat(0) ELSE RatNorm(<<ii * ii, (N - 1) * (N - 1)>>)

\* math.pow(u, p) + math.pow(v, p) < 1 for floats u, v >= 0 and p >= 2,
\* p given by its integer part.  For u, v < 1 the powers decrease with the
\* exponent, so the test holds when it holds for a smaller exponent: it is
\* decided with the exponent 2 when p is 2 and with the fourth powers when
\* p >= 4, which settles every pixel of the masks up to 9 x 9.
PowSumBelowOne(u, v, p) ==
    /\ RatLess(u, Rat(1))
    /\ RatLess(v, Rat(1))
    /\ LET uu == RatMul(u, u)
           vv == RatMul(v, v)
       IN  IF p < 4 THEN RatLess(RatAdd(uu, vv), Rat(1))
           ELSE RatLess(RatAdd(RatMul(uu, uu), RatMul(vv, vv)), Rat(1))

\* The body of "for y, x in grid": the ring ii whose alpha the pixel (y, x)
\* of the lower right quadrant gets.
RingOf(height, width, y, x) ==
    LET a == width \div 2
        b == height \div 2
        N == Max(a, b)
        ratio == <<width, height>>
        dra == IF a > b THEN <<a, N>> ELSE RatMul(<<b, N>>, ratio)
        drb == IF a > b THEN RatDiv(<<a, N>>, ratio) ELSE <<b, N>>
        ras(ii) == IF a > b THEN RatAdd(RatMul(Rat(ii), dra), Rat(1))
                   ELSE RatMul(RatAdd(RatMul(Rat(ii), drb), Rat(1)), ratio)
        rbs(ii) == IF a > b THEN RatDiv(RatAdd(RatMul(Rat(ii), dra), Rat(1)), ratio)
                   ELSE RatAdd(RatMul(Rat(ii), drb), Rat(1))
        j == RatDiv(Rat(x), dra)
        k == RatDiv(Rat(y), drb)
        i == RatFloor(RatMax(j, k))
        inside(ii) == PowSumBelowOne(RatDiv(Rat(x), ras(ii)),
                                     RatDiv(Rat(y), rbs(ii)), PsFloor(N, ii))
    IN  IF \E ii \in i..(N - 1) : inside(ii)
        THEN CHOOSE ii \in i..(N - 1) :
                 inside(ii) /\ \A m \in i..(ii - 1) : ~inside(m)
        ELSE N - 1

\* An array holds its values: the function with every value computed.
Arr(f) == f @@ <<>>

\* The indices of a height x width array.
Pixels(height, width) == (0..(height - 1)) \X (0..(width - 1))

\* np.amax of an array of floats none of which is NaN
Amax(height, width, arr) ==
    CHOOSE m \in {arr[px] : px \in Pixels(height, width)} :
        \A px \in Pixels(height, width) : ~RatLess(m, arr[px])

\* squircle /= np.amax(squircle); squircle = 1 - squircle
Inverted(height, width, arr, amax) ==
    Arr([px \in Pixels(height, width) |-> RatSub(Rat(1), RatDiv(arr[px], amax))])

Normalised(height, width, arr) ==
    Inverted(height, width, arr, Amax(height, width, arr))

\* squircle_alpha(height, width): what the call raises, or the mask.
SquircleAlpha(height, width) ==
    LET a == width \div 2
        b == height \div 2
        \* the quadrant written by line 55
        quadrant == Arr([px \in Pixels(height, width) |->
            IF px[1] \in b..(2 * b - 1) /\ px[2] \in a..(2 * a - 1)
            THEN AlphaSquared(Max(a, b), RingOf(height, width, px[1] - b, px[2] - a))
            ELSE Rat(0)])
        \* squircle[:b, a:] = np.flipud(squircle[b:, a:])
        upper == [px \in Pixels(height, width) |->
            quadrant[IF px[1] < b /\ px[2] >= a
                     THEN <<height - 1 - px[1], px[2]>> ELSE px]]
        \* squircle[:, :a] = np.fliplr(squircle[:, a:])
        left == [px \in Pixels(height, width) |->
            upper[IF px[2] < a THEN <<px[1], width - 1 - px[2]>> ELSE px]]
    IN  IF Max(a, b) = 0
        THEN [raised |-> "ZeroDivisionError"]             \* drb = b / N
        ELSE IF height - b # b /\ height - b # 1
        THEN [raised |-> "ValueError"]                    \* line 58: b + 1 rows into b
        ELSE IF width - a # a /\ width - a # 1
        THEN [raised |-> "ValueError"]                    \* line 59: a + 1 columns into a
        ELSE [raised |-> "", mask |-> Normalised(height, width, left)]

\* A call of squircle_alpha on any shape.
InitMask ==
    /\ \E height \in 1..MaxSide, width \in 1..MaxSide :
          squircle = [pc |-> "call", height |-> height, width |-> width]
    /\ fuse = NoCall
    /\ lru = NoCall
    /\ blayer = NoCall
    /\ RunnerIdle

SquircleCall ==
    /\ squircle.pc = "call"
    /\ squircle' = [pc |-> "returned", height |-> squircle.height,
                    width |-> squircle.width,
                    ret |-> SquircleAlpha(squircle.height, squircle.width)]
    /\ UNCHANGED <<fuse, lru, blayer>>
    /\ UNCHANGED runnerVars

NextMask == SquircleCall

SpecMask == InitMask /\ [][NextMask]_vars

----------------------------------------------------------------------------
(* fuse_queue (fuse.py).  A layer is [shape |-> <<depth, height, width>>,   *)
(* dtype, data |-> the float at every <<z, y, x>>]; an overlap descriptor   *)
(* is a row [Z_from, Z_to, Y_from, Y_to, X_from, X_to] of the overlaps      *)
(* table, Z in the coordinates of top_left, Y and X in those of the layer.  *)

MaxDepth == 2        \* a layer has 1..MaxDepth frames
MaxLayerSide == 6    \* layers are squares of side 4..MaxLayerSide
MaxDz == 1           \* the second tile lies 0..MaxDz frames below the first
MaxDy == 1           \* and 0..MaxDy rows further down

Float32Mantissa == 24    \* significant bits of the float32 of the layers

\* The float32 nearest to a float: an integer of magnitude 2^24 or more is
\* rounded to the nearest multiple of its unit in the last place, a tie to
\* the even multiple; smaller integers are float32 values, and a value with
\* a fractional part is kept exact.
Float32(v) ==
    IF IsNaN(v) \/ v[2] # 1 \/ Abs(v[1]) < IntPow(2, Float32Mantissa) THEN v
    ELSE LET mag == Abs(v[1])
             e == CHOOSE c \in Float32Mantissa..30 :
                      IntPow(2, c) <= mag /\ (c = 30 \/ mag < IntPow(2, c + 1))
             ulp == IntPow(2, e - Float32Mantissa + 1)
             lo == mag \div ulp
             rem == mag % ulp
             rounded == IF 2 * rem < ulp \/ (2 * rem = ulp /\ lo % 2 = 0)
                        THEN lo * ulp ELSE (lo + 1) * ulp
         IN  Rat(IF v[1] < 0 THEN -rounded ELSE rounded)

\* The indices start:stop selects from an axis of length len.
PySlice(start, stop, len) ==
    LET norm(i) == IF i < 0 THEN Max(i + len, 0) ELSE Min(i, len)
    IN  {c \in 0..(len - 1) : norm(start) <= c /\ c < norm(stop)}

Voxels(shape) == (0..(shape[1] - 1)) \X (0..(shape[2] - 1)) \X (0..(shape[3] - 1))

\* The item [None, None, None] that ends the queue.
Sentinel == [layer |-> None, pos |-> None, overlaps |-> None]

\* np.sort(np.unique(...)) of a set of integers
RECURSIVE Sorted(_)
Sorted(S) ==
    IF S = {} THEN <<>>
    ELSE LET m == CHOOSE c \in S : \A d \in S : c <= d
         IN  <<m>> \o Sorted(S \ {m})

\* zip(z, z[1::]) for z the sorted Z_from and Z_to of the overlaps
Bands(overlaps) ==
    LET z == Sorted({overlaps[r].Z_from : r \in DOMAIN overlaps}
                    \cup {overlaps[r].Z_to : r \in DOMAIN overlaps})
    IN  [c \in 1..(Len(z) - 1) |-> <<z[c], z[c + 1]>>]

\* w[yy, xx] for w = squircle_alpha(*layer.shape[-2::])[:height, :width],
\* flipped left-right when row.X_from == 0 and up-down when row.Y_from == 0.
OverlapWeight(mask, row, yy, xx) ==
    mask[<<IF row.Y_from = 0 THEN row.Y_to - row.Y_from - 1 - yy ELSE yy,
           IF row.X_from = 0 THEN row.X_to - row.X_from - 1 - xx ELSE xx>>]

\* One pass of the loop over overlaps[condition]: sums[xy_index] += w,
\* nothing for an overlap without area.
AddOverlap(sums, mask, row) ==
    IF (row.X_to - row.X_from) * (row.Y_to - row.Y_from) = 0 THEN sums
    ELSE Arr([px \in DOMAIN sums |->
            IF /\ px[1] \in row.Y_from..(row.Y_to - 1)
               /\ px[2] \in row.X_from..(row.X_to - 1)
            THEN RatAdd(sums[px], OverlapWeight(mask, row, px[1] - row.Y_from,
                                                px[2] - row.X_from))
            ELSE sums[px]])

RECURSIVE AddOverlaps(_, _, _)
AddOverlaps(sums, mask, rows) ==
    IF rows = <<>> THEN sums
    ELSE AddOverlaps(AddOverlap(sums, mask, Head(rows)), mask, Tail(rows))

\* overlaps[condition] for the band zfrom, zto
Covering(overlaps, zfrom, zto) ==
    SelectSeq(overlaps, LAMBDA r : r.Z_from <= zfrom /\ zto <= r.Z_to)

\* sums when the loop over overlaps[condition] has ended
WeightSum(mask, overlaps, zfrom, zto) ==
    AddOverlaps(mask, mask, Covering(overlaps, zfrom, zto))

\* The frames of layer[zfrom - z_from:zto - z_to, ...]
BandFrames(zfrom, zto, z_from, z_to, depth) ==
    PySlice(zfrom - z_from, zto - z_to, depth)

\* One pass of "for zfrom, zto in zip(z, z[1::])" on the data of the layer.
RescaleBand(data, shape, pos, overlaps, mask, band) ==
    LET zfrom == band[1]
        zto == band[2]
        z_from == pos[1]
        z_to == z_from + shape[1]
        sums == WeightSum(mask, overlaps, zfrom, zto)
        frames == BandFrames(zfrom, zto, z_from, z_to, shape[1])
    IN  IF zfrom > z_to \/ zto < z_from THEN data
        ELSE Arr([v \in DOMAIN data |->
                IF v[1] \in frames
                THEN Float32(RatMul(data[v], RatDiv(mask[<<v[2], v[3]>>],
                                                    sums[<<v[2], v[3]>>])))
                ELSE data[v]])

RECURSIVE RescaleBands(_, _, _, _, _, _)
RescaleBands(data, shape, pos, overlaps, mask, bands) ==
    IF bands = <<>> THEN data
    ELSE RescaleBands(RescaleBand(data, shape, pos, overlaps, mask, Head(bands)),
                      shape, pos, overlaps, mask, Tail(bands))

\* layer[..., -2:, :] = 255 and layer[..., -2:] = 255
MarkBorder(data, shape) ==
    Arr([v \in DOMAIN data |->
        IF v[2] \in PySlice(-2, shape[2], shape[2])
           \/ v[3] \in PySlice(-2, shape[3], shape[3])
        THEN Rat(255) ELSE data[v]])

\* stripe[stripe_roi_index] = layer instead of += layer
Accumulate_Assign(stripe, data, zs, y_from, x_from, ys, xs) ==
    Arr([v \in DOMAIN stripe |->
        IF v[1] \in zs /\ v[2] \in ys /\ v[3] \in xs
        THEN data[<<v[1], v[2] - y_from, v[3] - x_from>>]
        ELSE stripe[v]])

\* stripe[stripe_roi_index] += layer, for the index sets zs, ys, xs of
\* np.index_exp[:z_to - z_from, ..., y_from:y_to, x_from:x_to]
Accumulate(stripe, data, zs, y_from, x_from, ys, xs) ==
    Arr([v \in DOMAIN stripe |->
        IF v[1] \in zs /\ v[2] \in ys /\ v[3] \in xs
        THEN Float32(RatAdd(stripe[v],
                            data[<<v[1], v[2] - y_from, v[3] - x_from>>]))
        ELSE stripe[v]])

\* The body of the while loop from "z_from = pos[0]" on, for the outcome
\* xy_weights of squircle_alpha(*layer.shape[-2::]).
LoopBodyOn(stripe, output_shape, item, xy_weights) ==
    LET shape == item.layer.shape
        z_from == item.pos[1]
        z_to == z_from + shape[1]
        y_from == item.pos[2]
        y_to == y_from + shape[2]
        x_from == item.pos[3]
        x_to == x_from + shape[3]
        rescaled == RescaleBands(item.layer.data, shape, item.pos, item.overlaps,
                                 xy_weights.mask, Bands(item.overlaps))
        zs == PySlice(0, z_to - z_from, output_shape[1])
        ys == PySlice(y_from, y_to, output_shape[2])
        xs == PySlice(x_from, x_to, output_shape[3])
    IN  IF xy_weights.raised # "" THEN [raised |-> xy_weights.raised]
        ELSE IF \/ Cardinality(zs) # shape[1]
                \/ Cardinality(ys) # shape[2]
                \/ Cardinality(xs) # shape[3]
        THEN [raised |-> "ValueError"]         \* the window is cut by the stripe
        ELSE [raised |-> "",
              stripe |-> Accumulate(stripe, MarkBorder(rescaled, shape),
                                    zs, y_from, x_from, ys, xs)]

\* The body of the while loop for an item that is not the sentinel: the
\* exception it raises, or the stripe after stripe[stripe_roi_index] += layer.
LoopBody(stripe, output_shape, item) ==
    LoopBodyOn(stripe, output_shape, item,
               SquircleAlpha(item.layer.shape[2], item.layer.shape[3]))

\* np.zeros(output_shape, dtype=dtype)
Zeros(output_shape) == Arr([v \in Voxels(output_shape) |-> Rat(0)])

\* The pixel values of a tile: base, base + 2, base + 4, ... in the order
\* of the array.
TileData(t, shape) ==
    Arr([v \in Voxels(shape) |->
        Rat(t + 2 * (v[3] + shape[3] * (v[2] + shape[2] * v[1])))])

\* The overlap of the tile at "at" with the tile at "other", both of the
\* given shape, as a row of the overlaps table of the first.
OverlapRow(shape, at, other) ==
    [Z_from |-> Max(at[1], other[1]),
     Z_to |-> Max(Max(at[1], other[1]), Min(at[1], other[1]) + shape[1]),
     Y_from |-> Max(other[2] - at[2], 0),
     Y_to |-> Max(Max(other[2] - at[2], 0), Min(other[2] - at[2], 0) + shape[2]),
     X_from |-> Max(other[3] - at[3], 0),
     X_to |-> Max(Max(other[3] - at[3], 0), Min(other[3] - at[3], 0) + shape[3])]

\* The queue items of two tiles of one shape, the second at the offset
\* <<dz, dy, dx>> from the first, each with the overlap with the other.
TileItem(t, shape, at, other) ==
    [layer |-> [shape |-> shape, dtype |-> "float32", data |-> TileData(t, shape)],
     pos |-> at,
     overlaps |-> <<OverlapRow(shape, at, other)>>]

\* All the queues of at most two different items out of two.
Queues(A, B) == {<<>>, <<A>>, <<B>>, <<A, B>>, <<B, A>>}

\* A tile without overlap descriptors (an overlaps table without rows).
LoneItem(base, shape, at) ==
    [layer |-> [shape |-> shape, dtype |-> "float32", data |-> TileData(base, shape)],
     pos |-> at,
     overlaps |-> <<>>]

\* The orders of the elements of a sequence.
Orders(items) ==
    {[c \in DOMAIN items |-> items[p[c]]] :
        p \in {f \in [DOMAIN items -> DOMAIN items] :
                  \A c, d \in DOMAIN items : c # d => f[c] # f[d]}}

\* A queue in the state fuse_queue finds it in.
FuseCall(items, output_shape) ==
    [pc |-> "start",
     q |-> items \o <<Sentinel>>,
     unfinished_tasks |-> Len(items) + 1,
     output_shape |-> output_shape,
     stripe |-> <<>>,
     raised |-> "",
     input |-> items,
     got |-> <<>>]

\* fuse_queue(q, output_shape) is called on a queue whose producer has put
\* its items and the sentinel.
InitFuse ==
    /\ \/ \E depth \in 1..MaxDepth, side \in 4..MaxLayerSide,
             dz \in 0..MaxDz, dy \in 0..MaxDy :
          \E dx \in 1..side :
          \E items \in Queues(
                  TileItem(1, <<depth, side, side>>, <<0, 0, 0>>, <<dz, dy, dx>>),
                  TileItem(2, <<depth, side, side>>, <<dz, dy, dx>>, <<0, 0, 0>>)) :
             fuse = FuseCall(items, <<depth + dz, side + dy, side + dx>>)
       \* three frames on top of each other, one of them bright
       \/ \E side \in 4..MaxLayerSide :
          \E items \in Orders(
                  <<LoneItem(IntPow(2, Float32Mantissa), <<1, side, side>>, <<0, 0, 0>>),
                    LoneItem(1, <<1, side, side>>, <<0, 0, 0>>),
                    LoneItem(5, <<1, side, side>>, <<0, 0, 0>>)>>) :
             fuse = FuseCall(items, <<1, side, side>>)
    /\ squircle = NoCall
    /\ lru = NoCall
    /\ blayer = NoCall
    /\ RunnerIdle

\* dtype = q.queue[0][0].dtype; stripe = np.zeros(output_shape, dtype=dtype)
FuseStart ==
    /\ fuse.pc = "start"
    /\ fuse' = IF Head(fuse.q).layer = None
               THEN [fuse EXCEPT !.pc = "raised", !.raised = "AttributeError"]
               ELSE [fuse EXCEPT !.pc = "loop",
                                 !.stripe = Zeros(fuse.output_shape)]
    /\ UNCHANGED <<squircle, lru, blayer>>
    /\ UNCHANGED runnerVars

\* The call after the loop body has raised, or after q.task_done().
AfterItem(call, out) ==
    IF out.raised # ""
    THEN [call EXCEPT !.pc = "raised", !.raised = out.raised,
                      !.q = Tail(@), !.got = Append(@, Head(call.q))]
    ELSE [call EXCEPT !.q = Tail(@), !.got = Append(@, Head(call.q)),
                      !.stripe = out.stripe, !.unfinished_tasks = @ - 1]

\* layer, pos, overlaps = q.get() for an item, the loop body on it and
\* q.task_done().
FuseItem ==
    /\ fuse.pc = "loop"
    /\ fuse.q # <<>>
    /\ Head(fuse.q).layer # None
    /\ fuse' = AfterItem(fuse, LoopBody(fuse.stripe, fuse.output_shape,
                                        Head(fuse.q)))
    /\ UNCHANGED <<squircle, lru, blayer>>
    /\ UNCHANGED runnerVars

\* layer, pos, overlaps = q.get() for the sentinel: break; return stripe
FuseSentinel ==
    /\ fuse.pc = "loop"
    /\ fuse.q # <<>>
    /\ Head(fuse.q).layer = None
    /\ fuse' = [fuse EXCEPT !.pc = "returned", !.q = Tail(@)]
    /\ UNCHANGED <<squircle, lru, blayer>>
    /\ UNCHANGED runnerVars

\* The while loop of fuse_queue on a queue: what it raises, or the stripe
\* it returns at the sentinel.
RECURSIVE FuseLoop(_, _, _)
FuseLoop(stripe, output_shape, queue) ==
    IF Head(queue).layer = None THEN [raised |-> "", stripe |-> stripe]
    ELSE LET out == LoopBody(stripe, output_shape, Head(queue))
         IN  IF out.raised # "" THEN [raised |-> out.raised]
             ELSE FuseLoop(out.stripe, output_shape, Tail(queue))

\* fuse_queue(q, output_shape)
FuseQueue(queue, output_shape) ==
    IF Head(queue).layer = None THEN [raised |-> "AttributeError"]
    ELSE FuseLoop(Zeros(output_shape), output_shape, queue)

NextFuse ==
    \/ FuseStart
    \/ FuseItem
    \/ FuseSentinel

SpecFuse == InitFuse /\ [][NextFuse]_vars

----------------------------------------------------------------------------
(* The B window of keep_filling_data_queue (runner.py): which rows and      *)
(* columns of the frame of tile B, turned by rot90 for axis 2, are kept.    *)

MaxTrim == 2        \* max_dy and max_dx range over 0..MaxTrim
MaxOverlap == 4     \* overlap_v and overlap_h range over 3..MaxOverlap
MaxTile == 5        \* ysize and xsize of tile B range over 4..MaxTile

\* The Runner attributes the window is cut with.
WindowConfigs ==
    [max_dz : {MaxShift}, max_dy : 0..MaxTrim, max_dx : 0..MaxTrim,
     overlap_v : 3..MaxOverlap, overlap_h : 3..MaxOverlap,
     compute_average : {FALSE}]

\* The shape of blayer = b.layer_idx(z_frame) after
\* "if axis == 2: blayer = np.rot90(blayer, axes=(-2, -1))"
Rot90Shape(axis, ysize, xsize) ==
    IF axis = 2 THEN <<xsize, ysize>> ELSE <<ysize, xsize>>

\* The rows and columns of the turned frame that are left after
\* blayer = blayer[..., 0:overlap, :] and
\* blayer = blayer[..., :-self.max_dy, self.max_dx:-self.max_dx]
BWindow(axis, ysize, xsize) ==
    LET shape == Rot90Shape(axis, ysize, xsize)
        strip == PySlice(0, OverlapDict(axis), shape[1])
    IN  [rows |-> PySlice(0, -cfg.max_dy, Cardinality(strip)),
         cols |-> PySlice(cfg.max_dx, -cfg.max_dx, shape[2])]

InitWindow ==
    /\ cfg \in WindowConfigs
    /\ \E axis \in {1, 2}, ysize \in 4..MaxTile, xsize \in 4..MaxTile :
          blayer = [pc |-> "cut", axis |-> axis, ysize |-> ysize, xsize |-> xsize]
    /\ squircle = NoCall
    /\ fuse = NoCall
    /\ lru = NoCall
    /\ argmax_by_label = FALSE
    /\ n = 0
    /\ q = <<>>
    /\ q_unfinished = 0
    /\ initial_queue_length = 0
    /\ data_queue = <<>>
    /\ dq_unfinished = 0
    /\ output_q = <<>>
    /\ main = [pc |-> "fill", item |-> None, i |-> 0, joined |-> 0]
    /\ workers = <<>>
    /\ view = NoView
    /\ hist = NoHist

CutBWindow ==
    /\ blayer.pc = "cut"
    /\ blayer' = [pc |-> "done", axis |-> blayer.axis, ysize |-> blayer.ysize,
                  xsize |-> blayer.xsize,
                  window |-> BWindow(blayer.axis, blayer.ysize, blayer.xsize)]
    /\ UNCHANGED <<squircle, fuse, lru>>
    /\ UNCHANGED runnerVars

NextWindow == CutBWindow

SpecWindow == InitWindow /\ [][NextWindow]_vars

----------------------------------------------------------------------------
(* The cache of squircle_alpha (fuse.py: @lru_cache()) and the arrays that  *)
(* fuse_queue makes of a cached mask.  A shape is a key 1, 2, ...; an array *)
(* is known by its identity, not by its values.                             *)

LruMaxsize == 128       \* functools.lru_cache(): maxsize=128
MaxExtraShapes == 1     \* distinct shapes requested beyond LruMaxsize

MaxShapes == LruMaxsize + MaxExtraShapes

\* The array a run of the body of squircle_alpha returns: the gen-th array
\* computed for the key.
MaskArray(key, gen) == [key |-> key, gen |-> gen]

\* Where the key is in the cache, 0 when it is not.
IndexOfKey(cache, key) ==
    IF \E i \in 1..Len(cache) : cache[i].key = key
    THEN CHOOSE i \in 1..Len(cache) : cache[i].key = key
    ELSE 0

Without(cache, i) == SubSeq(cache, 1, i - 1) \o SubSeq(cache, i + 1, Len(cache))

\* squircle_alpha(*shape) through the lru_cache wrapper: a hit returns the
\* cached array and makes it the most recent; a miss runs the body, stores
\* the result and, when the cache is full, drops the least recent entry.
LruCall(c, key) ==
    LET i == IndexOfKey(c.cache, key)
    IN  IF i > 0
        THEN [cache |-> Append(Without(c.cache, i), c.cache[i]),
              computed |-> c.computed, hit |-> TRUE, result |-> c.cache[i]]
        ELSE LET gen == c.computed[key] + 1
                 made == MaskArray(key, gen)
                 kept == IF Len(c.cache) >= LruMaxsize
                         THEN Tail(c.cache) ELSE c.cache
             IN  [cache |-> Append(kept, made),
                  computed |-> [c.computed EXCEPT ![key] = gen],
                  hit |-> FALSE, result |-> made]

\* The identity of an array object.
IdOf(array) == <<"mask", array.key, array.gen>>

\* sums = np.copy(xy_weights): a new array.
NpCopy_Alias(array) == IdOf(array)
NpCopy(array) == <<"copy", array.key, array.gen>>

\* The arrays one layer of fuse_queue writes in place: sums (sums[xy_index]
\* += w) and the layer (layer[...] *= ...).  w is a view of the cached mask
\* and only read; xy_weights / sums is a new array.
WrittenInPlace(xy_weights) == {NpCopy(xy_weights), <<"layer">>}

\* The cached arrays among the written ones.
CachedAmong(cache, written) ==
    {id \in written : \E j \in 1..Len(cache) : IdOf(cache[j]) = id}

\* The shapes a call may ask for: the first one again, or one never asked.
NextKeys(c) ==
    {key \in {1, c.requested + 1} : key <= MaxShapes /\ key <= c.requested + 1}

InitCache ==
    /\ lru = [pc |-> "ready", cache |-> <<>>,
              computed |-> [key \in 1..MaxShapes |-> 0],
              modified |-> {}, requested |-> 0, last |-> None]
    /\ squircle = NoCall
    /\ fuse = NoCall
    /\ blayer = NoCall
    /\ RunnerIdle

\* A call of squircle_alpha from outside fuse_queue.
CacheSquircleAlpha ==
    /\ lru.pc = "ready"
    /\ \E key \in NextKeys(lru) :
          LET r == LruCall(lru, key)
          IN  lru' = [lru EXCEPT !.cache = r.cache, !.computed = r.computed,
                                 !.requested = Max(@, key),
                                 !.last = [op |-> "squircle_alpha",
                                           hit |-> r.hit]]
    /\ UNCHANGED <<squircle, fuse, blayer>>
    /\ UNCHANGED runnerVars

\* One layer of fuse_queue with one band and one overlap row: xy_weights =
\* squircle_alpha(...), sums = np.copy(xy_weights), one more call of
\* squircle_alpha for w, and the writes to sums and to the layer.
CacheFuseLayer ==
    /\ lru.pc = "ready"
    /\ \E key \in NextKeys(lru) :
          LET first == LruCall(lru, key)
              again == LruCall([cache |-> first.cache,
                                computed |-> first.computed], key)
              written == WrittenInPlace(first.result)
          IN  lru' = [lru EXCEPT !.cache = again.cache,
                                 !.computed = again.computed,
                                 !.modified = @ \cup CachedAmong(again.cache, written),
                                 !.requested = Max(@, key),
                                 !.last = [op |-> "fuse_queue",
                                           hit |-> first.hit]]
    /\ UNCHANGED <<squircle, fuse, blayer>>
    /\ UNCHANGED runnerVars

NextCache == CacheSquircleAlpha \/ CacheFuseLayer

SpecCache == InitCache /\ [][NextCache]_vars

----------------------------------------------------------------------------
(* Vocabulary of the properties *)

\* No thread can take a step: the run has ended or hangs.
Quiescent == ~ENABLED Next

\* Worker w has left Runner.worker, by the sentinel or by an exception.
Terminated(w) == workers[w].pc \in {"exit", "dead"}

\* Runner.run has called aggregate_results, or is about to.
ReachedAggregate == main.pc \in {"aggregate", "done"} \/ view.raised

JobsIn(queue) == {i \in 1..Len(queue) : queue[i] # None}

FailedJobs == hist.read_failed \cup hist.corr_failed

----------------------------------------------------------------------------
(* C1-C6: the pipeline of Runner.run *)

\* C1: the driver enqueues exactly n sentinels, every worker dequeues
\* exactly one sentinel and then ends, no worker dequeues two, and when the
\* run can go no further every worker has ended and was joined.
C1_EveryWorkerOneSentinel ==
    /\ hist.sentinels_put <= n
    /\ \A w \in 1..n : hist.sentinels_got[w] <= 1
    /\ \A w \in 1..n : Terminated(w) => hist.sentinels_got[w] = 1
    /\ Quiescent =>
          /\ hist.sentinels_put = n
          /\ \A w \in 1..n : Terminated(w)
          /\ main.joined = n

\* C2 as stated: once a sentinel has been put, no job waits in q or in
\* data_queue, none is being correlated, and every job has been marked
\* complete on data_queue and on q.
C2_SentinelAfterAllMarkedComplete ==
    hist.sentinels_put > 0 =>
        /\ q = <<>>
        /\ JobsIn(data_queue) = {}
        /\ \A w \in 1..n : workers[w].pc # "work"
        /\ \A j \in hist.jobs : hist.dq_done[j] = 1 /\ hist.q_done[j] = 1

\* C2 amended: once a sentinel has been put, no job waits in q or in
\* data_queue, none is being correlated, and every job has been acknowledged
\* on data_queue; q.task_done() is pending exactly for the jobs held by a
\* worker that stands between its two task_done calls.
C2_SentinelAfterDataQueueJoin ==
    hist.sentinels_put > 0 =>
        /\ q = <<>>
        /\ JobsIn(data_queue) = {}
        /\ \A w \in 1..n : workers[w].pc \notin {"work", "task_done_dq"}
        /\ \A j \in hist.jobs :
              /\ hist.dq_done[j] = 1
              /\ hist.q_done[j] <= 1
              /\ hist.q_done[j] = 0 <=>
                    \E w \in 1..n : /\ workers[w].pc = "task_done_q"
                                    /\ JobOf(workers[w].item) = j

\* A sentinel is in flight while a worker has still to call q.task_done().
C2_Witness ==
    /\ hist.sentinels_put > 0
    /\ \E w \in 1..n : workers[w].pc = "task_done_q"

\* C3: aggregate_results is called only when every worker has ended, no job
\* is left in q or data_queue, and every job has either failed or left
\* exactly one measurement in output_q; the view is computed from exactly
\* the keys of the measured jobs.
C3_AggregateAfterAllMeasurements ==
    ReachedAggregate =>
        /\ \A w \in 1..n : Terminated(w)
        /\ q = <<>>
        /\ JobsIn(data_queue) = {}
        /\ \A j \in hist.jobs :
              hist.measured[j] = (IF j \in FailedJobs THEN 0 ELSE 1)
        /\ Len(output_q) = Cardinality(hist.jobs \ FailedJobs)
        /\ main.pc = "done" =>
              {Key(r) : r \in view.rows} = {Key(j) : j \in hist.jobs \ FailedJobs}

\* Two workers have ended and the view was computed from several rows.
C3_Witness ==
    /\ main.pc = "done"
    /\ n = 2
    /\ Len(output_q) >= 2

\* C4: a job whose processing failed leaves no measurement and is marked
\* complete exactly once: never twice, and once when the run can go no
\* further (on q, and on data_queue when it was put there).
C4_FailedJobMarkedComplete ==
    \A j \in FailedJobs :
        /\ hist.measured[j] = 0
        /\ hist.dq_done[j] <= 1
        /\ hist.q_done[j] <= 1
        /\ Quiescent =>
              /\ hist.q_done[j] = 1
              /\ j \in hist.corr_failed => hist.dq_done[j] = 1

\* C5: with at least one worker, whatever jobs fail, when the run can go no
\* further it has reached aggregate_results, every worker has ended and
\* every job that did not fail has been measured.
C5_FailureDoesNotAbort ==
    (n >= 1 /\ Quiescent) =>
        /\ ReachedAggregate
        /\ \A w \in 1..n : Terminated(w)
        /\ \A j \in hist.jobs \ FailedJobs : hist.measured[j] = 1

\* C6 as stated: data_queue never holds more than 2*n entries.
C6_AtMost2nEntries == Len(data_queue) <= 2 * n

\* C6 amended: with at least one worker data_queue never holds more than
\* 2*n entries, sentinels included, and while it holds 2*n entries neither
\* the put of a window pair nor the put of a sentinel can proceed.
C6_BoundedWithWorkers ==
    n >= 1 =>
        /\ Len(data_queue) <= 2 * n
        /\ Len(data_queue) = 2 * n =>
              ~ENABLED DataQueuePut /\ ~ENABLED PutSentinel

\* The producer holds a window pair while data_queue is full.
C6_Witness ==
    /\ n >= 1
    /\ main.pc = "put"
    /\ Len(data_queue) = 2 * n

----------------------------------------------------------------------------
(* C7-C10: Runner.aggregate_results *)

\* aggregate_results has been applied to output_q.
Aggregated == main.pc \in {"done", "crashed"}

\* The rows of output_q that belong to the group of key k.
GroupRows(k) == {i \in 1..Len(output_q) : Key(output_q[i]) = k}

\* The scores of the group of key k, in table order.
GroupScores(k) == Column(output_q, Index(output_q, k), "score")

\* The aggregated record of key k before and after the conversion.
AggOf(k) == CHOOSE r \in view.agg : Key(r) = k
RowOf(k) == CHOOSE r \in view.rows : Key(r) = k

\* C7: for every content of output_q, the empty one included,
\* aggregate_results does not raise and returns exactly one record for each
\* key that has a measurement, and none for any other key.
C7_OneRecordPerMeasuredKey ==
    Aggregated =>
        /\ ~view.raised
        /\ {Key(r) : r \in view.rows} = GroupBy(output_q)
        /\ Cardinality(view.rows) = Cardinality(GroupBy(output_q))

\* C8: with compute_average False, every aggregated record carries the dz,
\* dy, dx and score of one measurement of its own group whose score is the
\* maximum of that group.
C8_BestOfOwnGroup ==
    (main.pc = "done" /\ ~cfg.compute_average) =>
        \A r \in view.agg :
            \E i \in GroupRows(Key(r)) :
                /\ \A j \in GroupRows(Key(r)) :
                      output_q[j].score <= output_q[i].score
                /\ r.dz = Rat(output_q[i].dz)
                /\ r.dy = Rat(output_q[i].dy)
                /\ r.dx = Rat(output_q[i].dx)
                /\ r.score = Rat(output_q[i].score)

\* C9 as stated: with compute_average True the emitted score of a group is
\* the unweighted mean of its scores.
C9_UnweightedMeanScore ==
    (main.pc = "done" /\ cfg.compute_average) =>
        \A r \in view.agg :
            r.score[1] * Len(GroupScores(Key(r)))
                = Sum(GroupScores(Key(r))) * r.score[2]

\* C9 amended: with compute_average True the emitted score of a group is the
\* mean of its scores weighted by the scores themselves: the sum of the
\* squared scores over the sum of the scores.
C9_ScoreWeightedMeanScore ==
    (main.pc = "done" /\ cfg.compute_average) =>
        \A r \in view.agg :
            r.score[1] * Sum(GroupScores(Key(r)))
                = Dot(GroupScores(Key(r)), GroupScores(Key(r))) * r.score[2]

\* An averaged group holds two measurements of different scores.
C9_Witness ==
    /\ main.pc = "done"
    /\ cfg.compute_average
    /\ \E r \in view.agg :
          \E i, j \in GroupRows(Key(r)) : output_q[i].score < output_q[j].score

\* C10 as stated: the conversion subtracts max_dz from dz and max_dx from dx,
\* maps dy to overlap_v - dy for axis 1 and leaves dy unchanged for axis 2.
C10_DyUnchangedForAxis2 ==
    main.pc = "done" =>
        \A k \in GroupBy(output_q) :
            /\ RowOf(k).dz[1] * AggOf(k).dz[2]
                  = (AggOf(k).dz[1] - cfg.max_dz * AggOf(k).dz[2]) * RowOf(k).dz[2]
            /\ RowOf(k).dx[1] * AggOf(k).dx[2]
                  = (AggOf(k).dx[1] - cfg.max_dx * AggOf(k).dx[2]) * RowOf(k).dx[2]
            /\ k.axis = 1 =>
                  RowOf(k).dy[1] * AggOf(k).dy[2]
                      = (cfg.overlap_v * AggOf(k).dy[2] - AggOf(k).dy[1]) * RowOf(k).dy[2]
            /\ k.axis = 2 =>
                  RowOf(k).dy[1] * AggOf(k).dy[2] = AggOf(k).dy[1] * RowOf(k).dy[2]

\* C10 amended: the conversion subtracts max_dz from dz and max_dx from dx,
\* and maps dy to overlap_v - dy for axis 1 and to overlap_h - dy for axis 2.
C10_DyFromOverlapOfAxis ==
    main.pc = "done" =>
        \A k \in GroupBy(output_q) :
            /\ RowOf(k).dz[1] * AggOf(k).dz[2]
                  = (AggOf(k).dz[1] - cfg.max_dz * AggOf(k).dz[2]) * RowOf(k).dz[2]
            /\ RowOf(k).dx[1] * AggOf(k).dx[2]
                  = (AggOf(k).dx[1] - cfg.max_dx * AggOf(k).dx[2]) * RowOf(k).dx[2]
            /\ k.axis = 1 =>
                  RowOf(k).dy[1] * AggOf(k).dy[2]
                      = (cfg.overlap_v * AggOf(k).dy[2] - AggOf(k).dy[1]) * RowOf(k).dy[2]
            /\ k.axis = 2 =>
                  RowOf(k).dy[1] * AggOf(k).dy[2]
                      = (cfg.overlap_h * AggOf(k).dy[2] - AggOf(k).dy[1]) * RowOf(k).dy[2]

\* A view with a converted record of each axis.
C10_Witness ==
    /\ main.pc = "done"
    /\ \E r1, r2 \in view.rows : r1.axis = 1 /\ r2.axis = 2

\* C11: every progress value a worker prints equals 100 * (jobs whose
\* correlation has completed, the reported one included) / (jobs initially
\* queued), and 100% is printed only when every job has completed.
C11_ProgressIsCompletedFraction ==
    \A p \in hist.printed :
        /\ RatEq(p.progress, <<100 * p.completed, initial_queue_length>>)
        /\ RatEq(p.progress, Rat(100)) => p.completed = initial_queue_length

\* Float equality: NaN equals nothing, itself included.
FloatEq(v, u) == ~IsNaN(v) /\ ~IsNaN(u) /\ v = u

\* C17: for every height >= 1 and width >= 1, squircle_alpha returns a mask
\* that is equal to its left-right and to its up-down mirror image and whose
\* centre pixel holds the maximum of the mask.
C17_MaskSymmetricCentreMax ==
    squircle.pc = "returned" =>
        /\ squircle.ret.raised = ""
        /\ \A px \in Pixels(squircle.height, squircle.width) :
              /\ FloatEq(squircle.ret.mask[px],
                         squircle.ret.mask[<<px[1], squircle.width - 1 - px[2]>>])
              /\ FloatEq(squircle.ret.mask[px],
                         squircle.ret.mask[<<squircle.height - 1 - px[1], px[2]>>])
              /\ ~RatLess(squircle.ret.mask[<<squircle.height \div 2,
                                              squircle.width \div 2>>],
                          squircle.ret.mask[px])

----------------------------------------------------------------------------
(* Vocabulary of the properties of fuse_queue *)

\* fuse_queue has returned its stripe.
Returned == fuse.pc = "returned"

\* The voxels of the output volume in the placement window the top_left
\* position and the shape of the layer give.
Window(item) ==
    {v \in Voxels(fuse.output_shape) :
        /\ v[1] \in item.pos[1]..(item.pos[1] + item.layer.shape[1] - 1)
        /\ v[2] \in item.pos[2]..(item.pos[2] + item.layer.shape[2] - 1)
        /\ v[3] \in item.pos[3]..(item.pos[3] + item.layer.shape[3] - 1)}

\* The voxel of the layer that lies at the output voxel v.
LayerVoxel(item, v) ==
    <<v[1] - item.pos[1], v[2] - item.pos[2], v[3] - item.pos[3]>>

\* The data of the layer as fuse_queue adds it: rescaled and marked.
Added(item) ==
    MarkBorder(RescaleBands(item.layer.data, item.layer.shape, item.pos,
                            item.overlaps,
                            SquircleAlpha(item.layer.shape[2],
                                          item.layer.shape[3]).mask,
                            Bands(item.overlaps)),
               item.layer.shape)

\* What the items of a queue add at the output voxel v when each is added
\* at its placement window.
RECURSIVE AddedAt(_, _)
AddedAt(items, v) ==
    IF items = <<>> THEN Rat(0)
    ELSE RatAdd(IF v \in Window(Head(items))
                THEN Added(Head(items))[LayerVoxel(Head(items), v)]
                ELSE Rat(0),
                AddedAt(Tail(items), v))

\* C12: every layer is added into the output volume exactly at the window
\* Z in [pos[0], pos[0] + depth), Y in [pos[1], pos[1] + height), X in
\* [pos[2], pos[2] + width), also when pos[0] # 0; the voxels outside the
\* windows of all items stay zero.
C12_AddedAtPlacementWindow ==
    Returned =>
        \A v \in Voxels(fuse.output_shape) :
            /\ fuse.stripe[v] = AddedAt(fuse.input, v)
            /\ (\A c \in DOMAIN fuse.input : v \notin Window(fuse.input[c]))
                  => fuse.stripe[v] = Rat(0)

\* The output voxel v lies inside an overlap descriptor of the item.
InOverlap(item, v) ==
    \E r \in DOMAIN item.overlaps :
        /\ item.overlaps[r].Z_from <= v[1] /\ v[1] < item.overlaps[r].Z_to
        /\ item.overlaps[r].Y_from <= v[2] - item.pos[2]
        /\ v[2] - item.pos[2] < item.overlaps[r].Y_to
        /\ item.overlaps[r].X_from <= v[3] - item.pos[3]
        /\ v[3] - item.pos[3] < item.overlaps[r].X_to

\* The output voxel v lies in the placement window of the c-th item only.
OnlyIn(c, v) ==
    /\ v \in Window(fuse.input[c])
    /\ \A o \in DOMAIN fuse.input : o # c => v \notin Window(fuse.input[o])

\* C13: an output pixel inside the placement window of exactly one item and
\* inside none of its overlap descriptors holds the original value of the
\* layer at that pixel, at the border rows and columns of the layer too.
C13_UnblendedPixelsVerbatim ==
    Returned =>
        \A c \in DOMAIN fuse.input, v \in Voxels(fuse.output_shape) :
            OnlyIn(c, v) /\ ~InOverlap(fuse.input[c], v)
                => fuse.stripe[v]
                     = fuse.input[c].layer.data[LayerVoxel(fuse.input[c], v)]

\* The alpha mask of the layer of an item.
MaskOf(item) == SquircleAlpha(item.layer.shape[2], item.layer.shape[3]).mask

\* The alpha mask value of the item at the output voxel v.
AlphaAt(item, v) ==
    MaskOf(item)[<<LayerVoxel(item, v)[2], LayerVoxel(item, v)[3]>>]

\* The weight the overlaps of the item add to its weight sum at the output
\* voxel v, in the band of the overlap descriptors that holds v.
WeightAddedAt(item, v) ==
    LET band == CHOOSE bd \in Range(Bands(item.overlaps)) :
                    bd[1] <= v[1] /\ v[1] < bd[2]
    IN  RatSub(WeightSum(MaskOf(item), item.overlaps, band[1], band[2])
                   [<<LayerVoxel(item, v)[2], LayerVoxel(item, v)[3]>>],
               AlphaAt(item, v))

\* The factor by which fuse_queue has multiplied the layer of the item at
\* the output voxel v.
FactorAt(item, v) ==
    RatDiv(RescaleBands(item.layer.data, item.layer.shape, item.pos,
                        item.overlaps, MaskOf(item), Bands(item.overlaps))
               [LayerVoxel(item, v)],
           item.layer.data[LayerVoxel(item, v)])

\* C14: at every output pixel covered by two equal-shaped layers whose
\* overlap descriptors describe the shared region, the weight added to the
\* weight sum of each layer is the alpha mask value of the other layer at
\* that pixel, the two factors applied sum to 1, and with equal mask values
\* each factor is one half.
C14_BlendFactorsSumToOne ==
    Returned /\ Len(fuse.input) = 2 =>
        \A v \in Window(fuse.input[1]) \cap Window(fuse.input[2]) :
            /\ WeightAddedAt(fuse.input[1], v) = AlphaAt(fuse.input[2], v)
            /\ WeightAddedAt(fuse.input[2], v) = AlphaAt(fuse.input[1], v)
            /\ FloatEq(RatAdd(FactorAt(fuse.input[1], v),
                              FactorAt(fuse.input[2], v)), Rat(1))
            /\ AlphaAt(fuse.input[1], v) = AlphaAt(fuse.input[2], v)
                 => /\ FactorAt(fuse.input[1], v) = <<1, 2>>
                    /\ FactorAt(fuse.input[2], v) = <<1, 2>>

\* fuse_queue has ended: what it raised, or the stripe it returned.
Ended == fuse.pc \in {"returned", "raised"}

Outcome ==
    IF fuse.pc = "returned" THEN [raised |-> "", stripe |-> fuse.stripe]
    ELSE [raised |-> fuse.raised]

\* The voxels of the stripe the layer of the item is added to.
AddedTo(item) ==
    {v \in Voxels(fuse.output_shape) :
        /\ v[1] \in 0..(item.layer.shape[1] - 1)
        /\ v[2] \in item.pos[2]..(item.pos[2] + item.layer.shape[2] - 1)
        /\ v[3] \in item.pos[3]..(item.pos[3] + item.layer.shape[3] - 1)}

C16_AccumulatesUpToSentinel ==
    /\ fuse.pc # "raised"
    /\ Returned =>
          /\ fuse.got = fuse.input
          /\ fuse.q = <<>>
          /\ DOMAIN fuse.stripe = Voxels(fuse.output_shape)
          /\ fuse.stripe = FuseLoop(Zeros(fuse.output_shape), fuse.output_shape,
                                    fuse.input \o <<Sentinel>>).stripe
          /\ fuse.input = <<>> => fuse.stripe = Zeros(fuse.output_shape)

\* C19: for every Z-band [zfrom, zto) of consecutive overlap boundaries
\* inside the Z extent [z_from, z_to] of a layer, exactly the frames with
\* absolute Z in [zfrom, zto) are multiplied by the own mask over the weight
\* sum, the band that ends at the last frame (zto = z_to) included.
C19_BandFramesRescaled ==
    \A c \in DOMAIN fuse.got :
        LET item == fuse.got[c]
            z_from == item.pos[1]
            z_to == z_from + item.layer.shape[1]
        IN  \A bd \in Range(Bands(item.overlaps)) :
                z_from <= bd[1] /\ bd[2] <= z_to =>
                    BandFrames(bd[1], bd[2], z_from, z_to, item.layer.shape[1])
                      = {f \in 0..(item.layer.shape[1] - 1) :
                            bd[1] <= f + z_from /\ f + z_from < bd[2]}

\* C20: for all max_dy >= 0 and max_dx >= 0 the B window is the first
\* overlap rows of the turned frame of tile B without their last max_dy
\* rows and without max_dx columns on either side; with max_dy = 0 or
\* max_dx = 0 nothing is trimmed in that direction and the window is not
\* empty.
C20_BWindowTrimmed ==
    blayer.pc = "done" =>
        LET shape == Rot90Shape(blayer.axis, blayer.ysize, blayer.xsize)
            strip == Min(OverlapDict(blayer.axis), shape[1])
        IN  /\ blayer.window.rows = 0..(strip - cfg.max_dy - 1)
            /\ blayer.window.cols = cfg.max_dx..(shape[2] - cfg.max_dx - 1)
            /\ cfg.max_dy = 0 => blayer.window.rows = 0..(strip - 1)
            /\ cfg.max_dx = 0 => blayer.window.cols = 0..(shape[2] - 1)

\* C18 as stated: over any sequence of squircle_alpha and fuse_queue calls,
\* with any number of distinct shapes, the mask of a shape is computed at
\* most once and no cached mask array is modified.
C18_ComputedOnceNeverModified ==
    lru.pc = "ready" =>
        /\ \A key \in 1..MaxShapes : lru.computed[key] <= 1
        /\ lru.modified = {}

\* C18 amended: over any sequence of squircle_alpha and fuse_queue calls that
\* ask for at most LruMaxsize distinct shapes, the mask of a shape is computed
\* at most once; and, whatever the number of shapes, no cached mask array is
\* modified.
C18_ComputedOnceWithinMaxsize ==
    lru.pc = "ready" =>
        /\ lru.requested <= LruMaxsize =>
              \A key \in 1..MaxShapes : lru.computed[key] <= 1
        /\ lru.modified = {}

\* fuse_queue has asked again for a shape that is in the cache and has
\* written to the copy of its mask.
C18_Witness ==
    /\ lru.pc = "ready"
    /\ lru.last # None
    /\ lru.last.op = "fuse_queue"
    /\ lru.last.hit
    /\ lru.requested > 1
    /\ lru.computed[lru.cache[Len(lru.cache)].key] = 1

\* C22: when fuse_queue has returned, every entry it took from q, the
\* sentinel included, has been acknowledged with task_done: the count of
\* unfinished tasks of q is zero, so that q.join() of the producer returns.
C22_ReturnedAllTasksDone ==
    Returned => fuse.unfinished_tasks = 0

----------------------------------------------------------------------------
(* C21: the failure-free run *)

\* How often job j waits in q.
InQ(j) == Cardinality({i \in 1..Len(q) : q[i] = j})

\* How often job j, read from q, is on its way: held by the producer for
\* data_queue.put, waiting in data_queue, being correlated by a worker, or
\* measured.
Taken(j) ==
    (IF main.pc = "put" /\ JobOf(main.item) = j THEN 1 ELSE 0)
    + Cardinality({i \in JobsIn(data_queue) : JobOf(data_queue[i]) = j})
    + Cardinality({w \in 1..n : workers[w].pc = "work" /\ JobOf(workers[w].item) = j})
    + hist.measured[j]

\* The rows of output_q with the key of job j, and the jobs with that key.
RowsOf(j) == {i \in 1..Len(output_q) : Key(output_q[i]) = Key(j)}
JobsLike(j) == {k \in hist.jobs : Key(k) = Key(j)}

\* C21: in a failure-free run with n >= 1 workers, under any interleaving,
\* every job put in q is read from q once and is thereafter at exactly one
\* stage, it is correlated at most once, and when run reaches
\* aggregate_results every job has been correlated exactly once and output_q
\* holds exactly one measurement per job, none lost and none duplicated.
C21_EveryJobMeasuredOnce ==
    n >= 1 =>
        /\ \A j \in hist.jobs :
              /\ InQ(j) + Taken(j) = 1
              /\ hist.measured[j] <= 1
        /\ Len(output_q) <= initial_queue_length
        /\ ReachedAggregate =>
              /\ q = <<>>
              /\ \A j \in hist.jobs :
                    /\ hist.measured[j] = 1
                    /\ Cardinality(RowsOf(j)) = Cardinality(JobsLike(j))
              /\ Len(output_q) = initial_queue_length

\* Two workers have correlated three jobs or more and run has reached
\* aggregate_results.
C21_Witness ==
    /\ main.pc = "aggregate"
    /\ n >= 2
    /\ initial_queue_length >= 3
    /\ Len(output_q) = initial_queue_length
    /\ \A j \in hist.jobs : hist.measured[j] = 1

====
